---- MODULE Spec2Model ----
(***************************************************************************)
(* The lazy combinatorial generators of itertools: Combinations,           *)
(* Combinations-with-Replacement, Powerset and Multi-Product, and the      *)
(* Accumulate adaptors, as one state machine.  A behaviour constructs one  *)
(* generator over a finite source (Init) and then calls next() on it again *)
(* and again; SpecReset adds reset(k) calls on Combinations, SpecBigLanes  *)
(* runs Multi-Products whose count exceeds usize::MAX.                     *)
(*                                                                         *)
(* Positions are 0-based as in the source; TLA+ sequences are 1-based, so  *)
(* position p of a Vec v is v[p + 1].  An Option is a sequence of length   *)
(* at most one.  The source of length n holds the items 0 .. n-1, so the   *)
(* item at a position is the position itself and a yielded tuple is the    *)
(* tuple of source positions it was built from.                            *)
(***************************************************************************)
EXTENDS Integers, Sequences, FiniteSets, TLC

VARIABLES
    gen,        \* which constructor built the generator
    input,      \* the arguments of the constructor (never changes)
    indices,    \* CombinationsBase / CombinationsWithReplacementBase .indices
    pool,       \* .pool : LazyBuffer [it, buffer]
    first,      \* .first
    pos,        \* PowersetBase.pos
    iters,      \* MultiProductBase.iters : Vec<MultiProductIter>
    manager,    \* .manager : CollectToVec or MapSlice [vec, capacity]
    adaptor,    \* Accumulate [iter, peeked] / AccumulateFrom [iter, accum]
    op,         \* the latest operation on the generator: [name, k]
    calls,      \* number of next() calls made since construction or reset
    ret,        \* what the latest next() call returned (None before any call)
    yielded,    \* the values returned up to the first None, in order
    finished,   \* some next() call has returned None
    post,       \* number of next() calls made after that first None
    panicked    \* a next() call panicked (index out of bounds, unwrap of None)

vars == <<gen, input, indices, pool, first, pos, iters, manager, adaptor,
          op, calls, ret, yielded, finished, post, panicked>>

---------------------------------------------------------------------------
(* Bounds of the model *)

MaxN == 4          \* longest source of Combinations / CWR / Powerset
MaxK == 5          \* largest k (one more than MaxN: k > n happens)
MaxLanes == 3      \* most lanes of a Multi-Product
MaxLaneLen == 2    \* longest lane
MaxPost == 2       \* next() calls made after the first None
MaxInit == 1       \* largest initial value of accumulate_from
BigLane == 16      \* a lane so long that BigLane * BigLane exceeds usize::MAX
MaxBigLanes == 2   \* most lanes of a Multi-Product with such lanes
MaxBigCalls == 3   \* next() calls made on a Multi-Product with such lanes

(* usize::MAX, modelled at a width of 8 bits *)
usize_MAX == 255

---------------------------------------------------------------------------
(* Option, Vec and arithmetic helpers *)

None == <<>>
Some(x) == <<x>>
is_some(o) == o # <<>>

\* (a..b).collect() for a half-open Rust range a..b
range_vec(a, b) == [j \in 1..(IF b > a THEN b - a ELSE 0) |-> a + j - 1]

saturating_add(a, b) == IF a + b > usize_MAX THEN usize_MAX ELSE a + b
wrapping_add(a, b) == (a + b) % (usize_MAX + 1)
wrapping_mul(a, b) == (a * b) % (usize_MAX + 1)
saturating_sub(a, b) == IF a < b THEN 0 ELSE a - b
saturating_mul(a, b) == IF a * b > usize_MAX THEN usize_MAX ELSE a * b

Source(n) == range_vec(0, n)

---------------------------------------------------------------------------
(* size_hint: a SizeHint is [lo, hi], hi an Option.  The bound arithmetic
   saturates at usize::MAX, and an absent upper bound stays absent. *)

SizeHint(lo, hi) == [lo |-> lo, hi |-> hi]
Exactly(n) == SizeHint(n, Some(n))

size_hint_add(a, b) ==
    SizeHint(saturating_add(a.lo, b.lo),
             IF is_some(a.hi) /\ is_some(b.hi)
             THEN Some(saturating_add(a.hi[1], b.hi[1])) ELSE None)

size_hint_mul(a, b) ==
    SizeHint(saturating_mul(a.lo, b.lo),
             IF is_some(a.hi) /\ is_some(b.hi)
             THEN Some(saturating_mul(a.hi[1], b.hi[1])) ELSE None)

size_hint_add_scalar(a, x) ==
    SizeHint(saturating_add(a.lo, x),
             IF is_some(a.hi) THEN Some(saturating_add(a.hi[1], x)) ELSE None)

size_hint_sub_scalar(a, x) ==
    SizeHint(saturating_sub(a.lo, x),
             IF is_some(a.hi) THEN Some(saturating_sub(a.hi[1], x)) ELSE None)

RECURSIVE saturating_pow(_, _)
saturating_pow(base, exp) ==
    IF exp = 0 THEN 1 ELSE saturating_mul(base, saturating_pow(base, exp - 1))

size_hint_pow_scalar_base(base, exp) ==
    SizeHint(saturating_pow(base, exp.lo),
             IF is_some(exp.hi) THEN Some(saturating_pow(base, exp.hi[1])) ELSE None)

---------------------------------------------------------------------------
(* LazyBuffer: len, get_next ("advance_one"), prefill ("ensure") *)

LazyBuffer_new(src) == [it |-> src, buffer |-> <<>>]

pool_len(p) == Len(p.buffer)

get_next(p) ==
    IF p.it = <<>>
    THEN [pool |-> p, ok |-> FALSE]
    ELSE [pool |-> [it |-> Tail(p.it), buffer |-> Append(p.buffer, Head(p.it))],
          ok |-> TRUE]

RECURSIVE prefill(_, _)
prefill(p, len) ==
    IF pool_len(p) >= len \/ p.it = <<>>
    THEN p
    ELSE prefill(get_next(p).pool, len)

\* indices.iter().map(|i| pool[*i].clone()): an index past the cache panics
in_bounds(ind, p) == \A j \in 1..Len(ind) : ind[j] >= 0 /\ ind[j] < pool_len(p)
window(ind, p) == [j \in 1..Len(ind) |-> p.buffer[ind[j] + 1]]

\* the outcome of one next() call on the Combinations family
Yield(st, ind, p) ==
    IF in_bounds(ind, p)
    THEN [st |-> st, ret |-> Some(window(ind, p)), panic |-> FALSE]
    ELSE [st |-> st, ret |-> None, panic |-> TRUE]
Done(st) == [st |-> st, ret |-> None, panic |-> FALSE]
Panic(st) == [st |-> st, ret |-> None, panic |-> TRUE]

---------------------------------------------------------------------------
(* Combinations *)

\* pool.prefill(k): the first k items of the source, fewer if it is shorter
combinations_eager(src, k) ==
    [indices |-> range_vec(0, k),
     pool |-> prefill(LazyBuffer_new(src), k + 1),
     first |-> TRUE]
combinations(src, k) ==
    [indices |-> range_vec(0, k),
     pool |-> prefill(LazyBuffer_new(src), k),
     first |-> TRUE]

comb_k(c) == Len(c.indices)
comb_n(c) == pool_len(c.pool)

\* the largest value the index of rank i may take: i + pool.len() - indices.len()
comb_limit_short(i, n, k) == i + n - k - 1
comb_limit(i, n, k) == i + n - k

\* while indices[i] == limit { if i > 0 { i -= 1 } else { return None } }
\* the rank to increment, -1 when the last combination is reached, -2 when
\* i + pool.len() - indices.len() underflows
RECURSIVE comb_scan(_, _, _)
comb_scan(ind, n, i) ==
    IF i + n < Len(ind) THEN -2
    ELSE IF ind[i + 1] = comb_limit(i, n, Len(ind))
    THEN IF i > 0 THEN comb_scan(ind, n, i - 1) ELSE -1
    ELSE i

\* indices[i] += 1; for j in i+1..len { indices[j] = indices[j-1] + 1 }
RECURSIVE comb_fill_flat(_, _)
comb_fill_flat(ind, j) ==
    IF j >= Len(ind) THEN ind
    ELSE comb_fill_flat([ind EXCEPT ![j + 1] = ind[j]], j + 1)
RECURSIVE comb_fill(_, _)
comb_fill(ind, j) ==
    IF j >= Len(ind) THEN ind
    ELSE comb_fill([ind EXCEPT ![j + 1] = ind[j] + 1], j + 1)
comb_increment(ind, i) == comb_fill([ind EXCEPT ![i + 1] = @ + 1], i + 1)

\* the branch "Reached the last combination": return None
comb_last_restart(c) == Done([c EXCEPT !.indices = range_vec(0, Len(c.indices)),
                                       !.first = TRUE])
comb_last(c) == Done(c)

\* if self.k() > self.n() on the first call
comb_too_few_loose(k, n) == k > n + 1
comb_too_few(k, n) == k > n

\* else if self.indices.is_empty() { return None }
comb_none_left_unguarded(ind) == FALSE
comb_none_left(ind) == ind = <<>>

\* if self.indices[i] == self.pool.len() - 1: consume more from the iterator
comb_needs_more(v, len) == v = len - 1

\* An arithmetic underflow (indices.len() - 1, pool.len() - 1,
\* i + pool.len() - indices.len()) is recorded as a panic where it happens.
comb_next(c) ==
    IF c.first THEN
        IF comb_too_few(comb_k(c), comb_n(c)) THEN Done(c)
        ELSE Yield([c EXCEPT !.first = FALSE], c.indices, c.pool)
    ELSE IF comb_none_left(c.indices) THEN Done(c)
    ELSE IF Len(c.indices) = 0 THEN Panic(c)     \* indices.len() - 1 underflows
    ELSE IF pool_len(c.pool) = 0 THEN Panic(c)   \* pool.len() - 1 underflows
    ELSE
        LET i0 == Len(c.indices) - 1
            p1 == IF comb_needs_more(c.indices[i0 + 1], pool_len(c.pool))
                  THEN get_next(c.pool).pool ELSE c.pool
            c1 == [c EXCEPT !.pool = p1]
            i == comb_scan(c.indices, pool_len(p1), i0)
        IN  IF i = -2 THEN Panic(c1)
            ELSE IF i = -1 THEN comb_last(c1)
            ELSE LET ind == comb_increment(c.indices, i)
                 IN  Yield([c1 EXCEPT !.indices = ind], ind, p1)

\* CombinationsBase::reset
reset_no_prefill(c, k) ==
    IF k < Len(c.indices)
    THEN [c EXCEPT !.first = TRUE, !.indices = range_vec(0, k)]
    ELSE [c EXCEPT !.first = TRUE,
                   !.indices = range_vec(0, Len(c.indices)) \o range_vec(Len(c.indices), k)]
reset(c, k) ==
    IF k < Len(c.indices)
    THEN [c EXCEPT !.first = TRUE, !.indices = range_vec(0, k)]
    ELSE [c EXCEPT !.first = TRUE,
                   !.indices = range_vec(0, Len(c.indices)) \o range_vec(Len(c.indices), k),
                   !.pool = prefill(c.pool, k)]

---------------------------------------------------------------------------
(* Combinations with replacement *)

combinations_with_replacement(src, k) ==
    [indices |-> [j \in 1..k |-> 0],
     pool |-> LazyBuffer_new(src),
     first |-> TRUE]

\* self.indices.is_empty() || self.pool.get_next(), with its short circuit
cwr_first_always_pull(c) == get_next(c.pool)
cwr_first(c) ==
    IF c.indices = <<>> THEN [pool |-> c.pool, ok |-> TRUE] ELSE get_next(c.pool)

\* *indices_int < self.pool.len() - 1
cwr_below_max_short(v, len) == v < len - 2
cwr_below_max(v, len) == v < len - 1

\* for (i, indices_int) in self.indices.iter().enumerate().rev(): the rightmost
\* rank whose index is below the last cached position, or -1
RECURSIVE cwr_scan(_, _, _)
cwr_scan(ind, len, i) ==
    IF i < 0 THEN -1
    ELSE IF cwr_below_max(ind[i + 1], len) THEN i
    ELSE cwr_scan(ind, len, i - 1)

cwr_next(c) ==
    IF c.first THEN
        LET g == cwr_first(c)
            c1 == [c EXCEPT !.pool = g.pool]
        IN  IF ~g.ok THEN Done(c1)
            ELSE Yield([c1 EXCEPT !.first = FALSE], c.indices, g.pool)
    ELSE
        LET p1 == get_next(c.pool).pool
            c1 == [c EXCEPT !.pool = p1]
        IN  IF c.indices # <<>> /\ pool_len(p1) = 0 THEN Panic(c1)  \* len() - 1 underflows
            ELSE LET i == cwr_scan(c.indices, pool_len(p1), Len(c.indices) - 1)
                 IN  IF i = -1 THEN Done(c1)
                     ELSE LET v == c.indices[i + 1] + 1
                              ind == [j \in 1..Len(c.indices) |->
                                         IF j - 1 >= i THEN v ELSE c.indices[j]]
                          IN  Yield([c1 EXCEPT !.indices = ind], ind, p1)

---------------------------------------------------------------------------
(* Powerset: p = [combs, pos] *)

powerset(src) == [combs |-> combinations(src, 0), pos |-> 0]

\* self.combs.k() < self.combs.n() || self.combs.k() == 0
pow_grows_no_probe(k, n) == k < n
pow_grows(k, n) == k < n \/ k = 0

pow_count(p, r) == IF is_some(r.ret) THEN saturating_add(p.pos, 1) ELSE p.pos

\* what a call of self.combs.next() that ended as r makes of the powerset p
pow_result(p, r) ==
    [st |-> [combs |-> r.st, pos |-> pow_count(p, r)], ret |-> r.ret, panic |-> r.panic]

\* the rest of next() once the first self.combs.next() has ended as r
pow_after(p, r) ==
    IF r.panic \/ is_some(r.ret) THEN pow_result(p, r)
    ELSE IF pow_grows(comb_k(r.st), comb_n(r.st))
    THEN pow_result(p, comb_next(reset(r.st, comb_k(r.st) + 1)))
    ELSE [st |-> [combs |-> r.st, pos |-> p.pos], ret |-> None, panic |-> FALSE]

pow_next(p) == pow_after(p, comb_next(p.combs))

\* if self.pos < usize::MAX: the counter has not saturated
pow_pos_reliable_never(p) == FALSE
pow_pos_reliable(p) == p < usize_MAX

\* the bounds a powerset of a source of bounds src_total has in all
pow_remaining(p, self_total) ==
    IF pow_pos_reliable(p.pos)
    THEN size_hint_sub_scalar(self_total, p.pos)
    ELSE SizeHint(0, self_total.hi)

\* PowersetBase::size_hint; src_hint is self.combs.src().size_hint(), the
\* bounds the source reports for the items not pulled yet
pow_size_hint(p, src_hint) ==
    pow_remaining(p, size_hint_pow_scalar_base(2,
                         size_hint_add_scalar(src_hint, comb_n(p.combs))))

---------------------------------------------------------------------------
(* Multi-Product: a lane is [cur, iter, iter_orig] *)

MultiProductIter_new(it) == [cur |-> None, iter |-> it, iter_orig |-> it]

multi_cartesian_product(lanes) ==
    [j \in 1..Len(lanes) |-> MultiProductIter_new(lanes[j])]

\* MultiProductIter::iterate: self.cur = self.iter.next()
iterate(l) ==
    IF l.iter = <<>> THEN [l EXCEPT !.cur = None]
    ELSE [l EXCEPT !.cur = Some(Head(l.iter)), !.iter = Tail(l.iter)]

\* MultiProductIter::reset: self.iter = self.iter_orig.clone()
lane_reset_forgotten(l) == l
lane_reset(l) == [l EXCEPT !.iter = l.iter_orig]

\* MultiProductIter::in_progress
lane_in_progress(l) == is_some(l.cur)

StartOfIter == [tag |-> "StartOfIter", on_first_iter |-> FALSE]
MidIter(b) == [tag |-> "MidIter", on_first_iter |-> b]

\* after last.reset(); last.iterate(): the carry succeeded iff the lane has an item
carry_done_unchecked(last) == TRUE
carry_done(last) == lane_in_progress(last)

\* StartOfIter => let on_first_iter = !last.in_progress()
starts_first_iter_never(last) == FALSE
starts_first_iter(last) == ~lane_in_progress(last)

RECURSIVE iterate_last(_, _)
iterate_last(multi_iters, state) ==
    IF multi_iters # <<>> THEN
        LET m == Len(multi_iters)
            last == multi_iters[m]
            rest == SubSeq(multi_iters, 1, m - 1)
            on_first_iter == IF state.tag = "StartOfIter"
                             THEN starts_first_iter(last)
                             ELSE state.on_first_iter
            state1 == MidIter(on_first_iter)
            last1 == IF ~on_first_iter THEN iterate(last) ELSE last
        IN  IF lane_in_progress(last1)
            THEN [ok |-> TRUE, iters |-> Append(rest, last1)]
            ELSE LET r == iterate_last(rest, state1)
                 IN  IF r.ok
                     THEN LET last2 == iterate(lane_reset(last1))
                          IN  [ok |-> carry_done(last2), iters |-> Append(r.iters, last2)]
                     ELSE [ok |-> FALSE, iters |-> Append(r.iters, last1)]
    ELSE [ok |-> IF state.tag = "StartOfIter" THEN FALSE ELSE state.on_first_iter,
          iters |-> multi_iters]

\* MultiProductBase::in_progress
in_progress(its) == IF its # <<>> THEN lane_in_progress(its[Len(its)]) ELSE FALSE

\* MultiProductBase::next; multi_iter.cur.clone().unwrap() panics on None
mp_yield(r) ==
    IF r.ok
    THEN IF \A j \in 1..Len(r.iters) : is_some(r.iters[j].cur)
         THEN [st |-> r.iters,
               ret |-> Some([j \in 1..Len(r.iters) |-> r.iters[j].cur[1]]),
               panic |-> FALSE]
         ELSE Panic(r.iters)
    ELSE Done(r.iters)
mp_next(its) == mp_yield(iterate_last(its, StartOfIter))

\* Iterator::count of a lane is the length of what is left of it.  The usize
\* operators * and + wrap around in a release build and panic in a debug
\* build: the folds compute the release value, the *_overflows operators
\* tell whether a debug build panics on the way.
RECURSIVE fold_not_started(_, _)
fold_not_started(its, acc) ==
    IF its = <<>> THEN acc
    ELSE fold_not_started(Tail(its), wrapping_mul(acc, Len(Head(its).iter)))

RECURSIVE fold_not_started_overflows(_, _)
fold_not_started_overflows(its, acc) ==
    IF its = <<>> THEN FALSE
    ELSE \/ acc * Len(Head(its).iter) > usize_MAX
         \/ fold_not_started_overflows(Tail(its), wrapping_mul(acc, Len(Head(its).iter)))

RECURSIVE fold_in_progress(_, _)
fold_in_progress(its, acc) ==
    IF its = <<>> THEN acc
    ELSE fold_in_progress(Tail(its),
             wrapping_add(wrapping_mul(acc, Len(Head(its).iter_orig)),
                          Len(Head(its).iter)))

RECURSIVE fold_in_progress_overflows(_, _)
fold_in_progress_overflows(its, acc) ==
    IF its = <<>> THEN FALSE
    ELSE \/ acc * Len(Head(its).iter_orig) > usize_MAX
         \/ wrapping_mul(acc, Len(Head(its).iter_orig)) + Len(Head(its).iter) > usize_MAX
         \/ fold_in_progress_overflows(Tail(its),
                wrapping_add(wrapping_mul(acc, Len(Head(its).iter_orig)),
                             Len(Head(its).iter)))

\* MultiProductBase::count
count(its) ==
    IF its = <<>> THEN 0
    ELSE IF ~in_progress(its) THEN fold_not_started(its, 1)
    ELSE fold_in_progress(its, 0)

count_overflows(its) ==
    IF its = <<>> THEN FALSE
    ELSE IF ~in_progress(its) THEN fold_not_started_overflows(its, 1)
    ELSE fold_in_progress_overflows(its, 0)

\* Unspecialized(iter).count(): the number of next() calls that return a value
\* before the first None
RECURSIVE unspec_count(_)
unspec_count(its) ==
    LET r == mp_next(its)
    IN  IF is_some(r.ret) THEN 1 + unspec_count(r.st) ELSE 0

\* iter.size_hint() of a lane's iterator over the items left in it: exact,
\* except for a lane whose iterator reports no upper bound
lane_size_hint(it, unbounded) ==
    IF unbounded THEN SizeHint(0, None) ELSE Exactly(Len(it))

\* fold((1, Some(1)), |acc, multi_iter| mul(acc, multi_iter.iter.size_hint()));
\* j is the position of the lane Head(its)
RECURSIVE hint_not_started(_, _, _, _)
hint_not_started(its, unknown, j, acc) ==
    IF its = <<>> THEN acc
    ELSE hint_not_started(Tail(its), unknown, j + 1,
             size_hint_mul(acc, lane_size_hint(Head(its).iter, j \in unknown)))

\* fold((0, Some(0)), |acc, lane| add(mul(acc, total_size), cur_size))
RECURSIVE hint_in_progress(_, _, _, _)
hint_in_progress(its, unknown, j, acc) ==
    IF its = <<>> THEN acc
    ELSE hint_in_progress(Tail(its), unknown, j + 1,
             size_hint_add(
                 size_hint_mul(acc, lane_size_hint(Head(its).iter_orig, j \in unknown)),
                 lane_size_hint(Head(its).iter, j \in unknown)))

\* MultiProductBase::size_hint; unknown is the set of positions (from 1) of
\* the lanes whose iterator reports no upper bound
mp_size_hint(its, unknown) ==
    IF its = <<>> THEN Exactly(0)
    ELSE IF ~in_progress(its) THEN hint_not_started(its, unknown, 1, Exactly(1))
    ELSE hint_in_progress(its, unknown, 1, Exactly(0))

\* multi_iter.iter.last(): the last item the advancing iterator still holds
lane_last(l) == IF l.iter = <<>> THEN None ELSE Some(l.iter[Len(l.iter)])

\* .map(|multi_iter| multi_iter.iter.last()).while_some().collect_vec()
RECURSIVE while_some(_)
while_some(opts) ==
    IF opts = <<>> THEN <<>>
    ELSE IF is_some(Head(opts)) THEN <<Head(opts)[1]>> \o while_some(Tail(opts))
    ELSE <<>>

\* MultiProductBase::last, before the output strategy is applied
last(its) ==
    LET lasts == while_some([j \in 1..Len(its) |-> lane_last(its[j])])
    IN  IF Len(lasts) = Len(its) THEN Some(lasts) ELSE None

\* Unspecialized(iter).last(): the value of the last next() call that returns
\* one before the first None (acc when there is none)
RECURSIVE unspec_last_from(_, _)
unspec_last_from(r, acc) ==
    IF is_some(r.ret) THEN unspec_last_from(mp_next(r.st), r.ret) ELSE acc
unspec_last(its) == unspec_last_from(mp_next(its), None)

---------------------------------------------------------------------------
(* Accumulate [iter, peeked] and AccumulateFrom [iter, accum].  peeked is an
   Option<Option<Item>>: None, Some(None) or Some(Some(x)). *)

accumulate(src) == [iter |-> src, peeked |-> None]
accumulate_from(src, init) == [iter |-> src, accum |-> Some(init)]

\* the caller's func(&acc, item): not commutative, not associative
acc_func(a, item) == 2 * a + item + 1

\* iter.next()
iter_next(it) ==
    IF it = <<>> THEN [iter |-> it, item |-> None]
    ELSE [iter |-> Tail(it), item |-> Some(Head(it))]

\* accum.replace(b): stores b, returns what was stored
accum_replace_returns_new(accum, b) == [accum |-> Some(b), ret |-> Some(b)]
accum_replace(accum, b) == [accum |-> Some(b), ret |-> accum]

\* accum.take()
accum_take(accum) == [accum |-> None, ret |-> accum]

\* match iter.next() { Some(item) => accum.replace(func(acc, item)),
\*                     None => accum.take() }; n is what iter.next() returned
fold_item(accum, n) ==
    IF is_some(n.item) THEN accum_replace(accum, acc_func(accum[1], n.item[1]))
    ELSE accum_take(accum)

\* peeked.get_or_insert_with(|| iter.next())
get_or_insert_with(a, n) ==
    IF is_some(a.peeked) THEN a ELSE [iter |-> n.iter, peeked |-> Some(n.item)]

AccumulateFolded(it, f) ==
    [st |-> [iter |-> it, peeked |-> Some(f.accum)], ret |-> f.ret, panic |-> FALSE]

\* Accumulate::next once peeked is filled; accum.as_ref()? returns None early
accumulate_peeked(a, n) ==
    IF ~is_some(a.peeked[1]) THEN Done(a)
    ELSE AccumulateFolded(n.iter, fold_item(a.peeked[1], n))

accumulate_filled(a) == accumulate_peeked(a, iter_next(a.iter))

\* Accumulate::next
accumulate_next(a) == accumulate_filled(get_or_insert_with(a, iter_next(a.iter)))

AccumulateFromFolded(it, f) ==
    [st |-> [iter |-> it, accum |-> f.accum], ret |-> f.ret, panic |-> FALSE]

accumulate_from_item(a, n) == AccumulateFromFolded(n.iter, fold_item(a.accum, n))

\* AccumulateFrom::next
accumulate_from_next(a) ==
    IF ~is_some(a.accum) THEN Done(a)
    ELSE accumulate_from_item(a, iter_next(a.iter))

\* size_hint::add_scalar(self.iter.size_hint(), 1): the stored value is one
\* more to yield
acc_pending_forgotten(h) == h
acc_pending(h) == size_hint_add_scalar(h, 1)

\* Accumulate::size_hint; iter_hint is self.iter.size_hint()
accumulate_size_hint(a, iter_hint) ==
    IF ~is_some(a.peeked) THEN iter_hint
    ELSE IF is_some(a.peeked[1]) THEN acc_pending(iter_hint)
    ELSE Exactly(0)

\* AccumulateFrom::size_hint
accumulate_from_size_hint(a, iter_hint) ==
    IF ~is_some(a.accum) THEN Exactly(0) ELSE acc_pending(iter_hint)

---------------------------------------------------------------------------
(* Output strategies (VecItems): CollectToVec and MapSlice *)

CollectToVec == [kind |-> "CollectToVec", vec |-> <<>>, capacity |-> 0]

\* MapSlice::with_capacity(func, capacity)
MapSlice_with_capacity(capacity) ==
    [kind |-> "MapSlice", vec |-> <<>>, capacity |-> capacity]

\* the caller's transform, applied to the borrowed slice: here, its reversal
func(w) == [j \in 1..Len(w) |-> w[Len(w) + 1 - j]]

\* self.vec.clear()
vec_clear_forgotten(v) == v
vec_clear(v) == <<>>

\* self.vec.extend(iter): the Vec grows its capacity when the items do not fit
vec_extend(m, w) ==
    [m EXCEPT !.vec = @ \o w,
              !.capacity = IF Len(m.vec) + Len(w) > @ THEN Len(m.vec) + Len(w) ELSE @]

\* VecItems::new_item for CollectToVec: iter.collect()
new_item_collect(m, w) == [manager |-> m, out |-> w]

\* VecItems::new_item for MapSlice: extend, call func on the slice, clear
new_item_map(m, w) ==
    LET filled == vec_extend(m, w)
    IN  [manager |-> [filled EXCEPT !.vec = vec_clear(@)], out |-> func(filled.vec)]

new_item(m, w) ==
    IF m.kind = "CollectToVec" THEN new_item_collect(m, w) ELSE new_item_map(m, w)

---------------------------------------------------------------------------
(* A generator: the fields of whichever of the four structs was built *)

IsCombinations(g) == g \in {"combinations", "combinations_map"}
IsCombinationsWithReplacement(g) ==
    g \in {"combinations_with_replacement", "combinations_with_replacement_map"}
IsPowerset(g) == g \in {"powerset", "powerset_map"}
IsMultiProduct(g) == g \in {"multi_cartesian_product", "multi_cartesian_product_map"}
IsMap(g) == g \in {"combinations_map", "combinations_with_replacement_map",
                   "powerset_map", "multi_cartesian_product_map"}

\* the collecting constructor of a constructor
Collecting(g) ==
    CASE IsCombinations(g) -> "combinations"
      [] IsCombinationsWithReplacement(g) -> "combinations_with_replacement"
      [] IsPowerset(g) -> "powerset"
      [] IsMultiProduct(g) -> "multi_cartesian_product"

IsAccumulate(g) == g \in {"accumulate", "accumulate_from"}

NoInput == [src |-> <<>>, k |-> 0, lanes |-> <<>>, unknown |-> {}, init |-> 0]

\* the fields of the structs that were not built
NoCombs == [indices |-> <<>>, pool |-> LazyBuffer_new(<<>>), first |-> FALSE]
NoManager == [kind |-> "none", vec |-> <<>>, capacity |-> 0]
NoAccumulate == [iter |-> <<>>]

Indexed(g, c, m) ==
    [gen |-> g, indices |-> c.indices, pool |-> c.pool, first |-> c.first,
     pos |-> 0, iters |-> <<>>, manager |-> m, adaptor |-> NoAccumulate]

\* combinations / combinations_map / combinations_with_replacement(_map) /
\* powerset(_map) / multi_cartesian_product(_map)
construct(g, in) ==
    CASE g = "combinations" ->
            Indexed(g, combinations(in.src, in.k), CollectToVec)
      [] g = "combinations_map" ->
            Indexed(g, combinations(in.src, in.k), MapSlice_with_capacity(in.k))
      [] g = "combinations_with_replacement" ->
            Indexed(g, combinations_with_replacement(in.src, in.k), CollectToVec)
      [] g = "combinations_with_replacement_map" ->
            Indexed(g, combinations_with_replacement(in.src, in.k),
                    MapSlice_with_capacity(in.k))
      [] g = "powerset" ->
            Indexed(g, powerset(in.src).combs, CollectToVec)
      [] g = "powerset_map" ->
            Indexed(g, powerset(in.src).combs, MapSlice_with_capacity(0))
      [] g = "multi_cartesian_product" ->
            [Indexed(g, NoCombs, CollectToVec)
                EXCEPT !.iters = multi_cartesian_product(in.lanes)]
      [] g = "multi_cartesian_product_map" ->
            [Indexed(g, NoCombs, MapSlice_with_capacity(Len(in.lanes)))
                EXCEPT !.iters = multi_cartesian_product(in.lanes)]
      [] g = "accumulate" ->
            [Indexed(g, NoCombs, NoManager) EXCEPT !.adaptor = accumulate(in.src)]
      [] g = "accumulate_from" ->
            [Indexed(g, NoCombs, NoManager)
                EXCEPT !.adaptor = accumulate_from(in.src, in.init)]

CombsOf(G) == [indices |-> G.indices, pool |-> G.pool, first |-> G.first]
WithCombs(G, c) ==
    [G EXCEPT !.indices = c.indices, !.pool = c.pool, !.first = c.first]

AdvancedCombs(G, r) == [g |-> WithCombs(G, r.st), ret |-> r.ret, panic |-> r.panic]
AdvancedPowerset(G, r) ==
    [g |-> [WithCombs(G, r.st.combs) EXCEPT !.pos = r.st.pos],
     ret |-> r.ret, panic |-> r.panic]
AdvancedMultiProduct(G, r) ==
    [g |-> [G EXCEPT !.iters = r.st], ret |-> r.ret, panic |-> r.panic]

AdvancedAccumulate(G, r) ==
    [g |-> [G EXCEPT !.adaptor = r.st], ret |-> r.ret, panic |-> r.panic]

\* the index step of next(): the window to hand to the output strategy, or None
advance(G) ==
    CASE IsCombinations(G.gen) -> AdvancedCombs(G, comb_next(CombsOf(G)))
      [] IsCombinationsWithReplacement(G.gen) -> AdvancedCombs(G, cwr_next(CombsOf(G)))
      [] IsPowerset(G.gen) ->
            AdvancedPowerset(G, pow_next([combs |-> CombsOf(G), pos |-> G.pos]))
      [] IsMultiProduct(G.gen) -> AdvancedMultiProduct(G, mp_next(G.iters))
      [] G.gen = "accumulate" -> AdvancedAccumulate(G, accumulate_next(G.adaptor))
      [] G.gen = "accumulate_from" -> AdvancedAccumulate(G, accumulate_from_next(G.adaptor))

\* Some(manager.new_item(window)): d is what new_item made of the window
Delivered(r, d) ==
    [g |-> [r.g EXCEPT !.manager = d.manager], ret |-> Some(d.out), panic |-> r.panic]
Deliver(r) ==
    IF is_some(r.ret) /\ ~IsAccumulate(r.g.gen) THEN Delivered(r, new_item(r.g.manager, r.ret[1])) ELSE r

\* Iterator::next: Some(manager.new_item(window)) or None
gen_next(G) == Deliver(advance(G))

---------------------------------------------------------------------------
(* The state machine *)

LaneLens == UNION {[1..m -> 0..MaxLaneLen] : m \in 0..MaxLanes}
Lanes(lens) == [j \in 1..Len(lens) |-> Source(lens[j])]

Operation(name, k) == [name |-> name, k |-> k]

Observers ==
    /\ op = Operation("new", 0)
    /\ calls = 0
    /\ ret = None
    /\ yielded = <<>>
    /\ finished = FALSE
    /\ post = 0
    /\ panicked = FALSE

Self ==
    [gen |-> gen, indices |-> indices, pool |-> pool, first |-> first,
     pos |-> pos, iters |-> iters, manager |-> manager, adaptor |-> adaptor]

InitFrom(g, in) ==
    LET G == construct(g, in)
    IN  /\ input = in
        /\ gen = G.gen
        /\ indices = G.indices
        /\ pool = G.pool
        /\ first = G.first
        /\ pos = G.pos
        /\ iters = G.iters
        /\ manager = G.manager
        /\ adaptor = G.adaptor

InitIndexed(g, n, k) ==
    InitFrom(g, [NoInput EXCEPT !.src = Source(n), !.k = k])

InitCombinations ==
    \E n \in 0..MaxN, k \in 0..MaxK, g \in {"combinations", "combinations_map"} :
        InitIndexed(g, n, k)

InitCombinationsWithReplacement ==
    \E n \in 0..MaxN, k \in 0..MaxK,
       g \in {"combinations_with_replacement", "combinations_with_replacement_map"} :
        InitIndexed(g, n, k)

InitPowerset ==
    \E n \in 0..MaxN, g \in {"powerset", "powerset_map"} :
        InitIndexed(g, n, 0)

InitMultiProduct ==
    \E lens \in LaneLens,
       g \in {"multi_cartesian_product", "multi_cartesian_product_map"} :
        InitFrom(g, [NoInput EXCEPT !.lanes = Lanes(lens)])

InitAccumulate ==
    \/ \E n \in 0..MaxN : InitFrom("accumulate", [NoInput EXCEPT !.src = Source(n)])
    \/ \E n \in 0..MaxN, b \in 0..MaxInit :
           InitFrom("accumulate_from", [NoInput EXCEPT !.src = Source(n), !.init = b])

Init ==
    /\ Observers
    /\ \/ InitCombinations
       \/ InitCombinationsWithReplacement
       \/ InitPowerset
       \/ InitMultiProduct
       \/ InitAccumulate

\* the caller may call next() again: at most MaxPost calls after the first None
CanCall == ~panicked /\ post < MaxPost

Observe(r) ==
    /\ op' = Operation("next", 0)
    /\ calls' = calls + 1
    /\ ret' = r.ret
    /\ panicked' = r.panic
    /\ yielded' = IF ~finished /\ is_some(r.ret) THEN Append(yielded, r.ret[1])
                  ELSE yielded
    /\ finished' = (finished \/ (~r.panic /\ ~is_some(r.ret)))
    /\ post' = IF finished THEN post + 1 ELSE post

Combs == CombsOf(Self)

SetSelf(G) ==
    /\ indices' = G.indices
    /\ pool' = G.pool
    /\ first' = G.first
    /\ pos' = G.pos
    /\ iters' = G.iters
    /\ manager' = G.manager
    /\ adaptor' = G.adaptor

Return(r) == SetSelf(r.g) /\ Observe(r)

\* one call of next() on the generator
CallNext ==
    /\ CanCall
    /\ Return(gen_next(Self))
    /\ UNCHANGED <<gen, input>>

CombinationsNext == IsCombinations(gen) /\ CallNext

CombinationsWithReplacementNext == IsCombinationsWithReplacement(gen) /\ CallNext

PowersetNext == IsPowerset(gen) /\ CallNext

MultiProductNext == IsMultiProduct(gen) /\ CallNext

AccumulateNext == IsAccumulate(gen) /\ CallNext

Next ==
    \/ CombinationsNext
    \/ CombinationsWithReplacementNext
    \/ PowersetNext
    \/ MultiProductNext
    \/ AccumulateNext

Spec == Init /\ [][Next]_vars

(* Combinations under reset: next() calls and reset(k) calls in any order.
   A reset starts a new enumeration, so the observers start over. *)

SetCombs(c) ==
    /\ indices' = c.indices
    /\ pool' = c.pool
    /\ first' = c.first

ResetTo(k) ==
    /\ IsCombinations(gen) /\ ~panicked
    /\ SetCombs(reset(Combs, k))
    /\ op' = Operation("reset", k)
    /\ calls' = 0
    /\ ret' = None
    /\ yielded' = <<>>
    /\ finished' = FALSE
    /\ post' = 0
    /\ UNCHANGED <<gen, input, pos, iters, manager, adaptor, panicked>>

Reset == \E k \in 0..MaxK : ResetTo(k)

InitReset == Observers /\ InitCombinations

NextReset == CombinationsNext \/ Reset

SpecReset == InitReset /\ [][NextReset]_vars

(* The same machine over Multi-Products whose lanes are long enough for the
   count to exceed usize::MAX, some of them reporting no upper bound; a few
   next() calls on each. *)

BigLaneLens == UNION {[1..m -> {0, 1, BigLane, BigLane + 1}] : m \in 0..MaxBigLanes}

InitBigLanes ==
    /\ Observers
    /\ \E lens \in BigLaneLens,
          g \in {"multi_cartesian_product", "multi_cartesian_product_map"} :
          \E unknown \in SUBSET (1..Len(lens)) :
              InitFrom(g, [NoInput EXCEPT !.lanes = Lanes(lens), !.unknown = unknown])

BigLanesNext == IsMultiProduct(gen) /\ calls < MaxBigCalls /\ CallNext

SpecBigLanes == InitBigLanes /\ [][BigLanesNext]_vars

---------------------------------------------------------------------------
(* Vocabulary of the properties *)

N == Len(input.src)
K == input.k
LaneLen(j) == Len(input.lanes[j])
SomeLaneEmpty == \E j \in 1..Len(input.lanes) : LaneLen(j) = 0

RECURSIVE Binomial(_, _)
Binomial(n, k) ==
    IF k = 0 THEN 1
    ELSE IF k > n THEN 0
    ELSE Binomial(n - 1, k - 1) + Binomial(n - 1, k)

RECURSIVE Pow2(_)
Pow2(n) == IF n = 0 THEN 1 ELSE 2 * Pow2(n - 1)

RECURSIVE ProductOfLens(_)
ProductOfLens(lanes) ==
    IF lanes = <<>> THEN 1 ELSE Len(Head(lanes)) * ProductOfLens(Tail(lanes))

Max0(x) == IF x < 0 THEN 0 ELSE x

StrictlyIncreasing(t) == \A i \in 1..Len(t) : \A j \in 1..Len(t) : i < j => t[i] < t[j]
NonDecreasing(t) == \A i \in 1..Len(t) : \A j \in 1..Len(t) : i < j => t[i] <= t[j]

\* a comes strictly before b in lexicographic order (tuples of one length)
LexLess(a, b) ==
    /\ Len(a) = Len(b)
    /\ \E i \in 1..Len(a) : a[i] < b[i] /\ \A j \in 1..(i - 1) : a[j] = b[j]

LexOrdered(seq) == \A i \in 1..(Len(seq) - 1) : LexLess(seq[i], seq[i + 1])

\* first by size, then lexicographically
SizeLexOrdered(seq) ==
    \A i \in 1..(Len(seq) - 1) :
        \/ Len(seq[i]) < Len(seq[i + 1])
        \/ LexLess(seq[i], seq[i + 1])

Occurrences(seq, t) == Cardinality({i \in 1..Len(seq) : seq[i] = t})

IncreasingTuples(n, k) == {t \in [1..k -> 0..(n - 1)] : StrictlyIncreasing(t)}
NonDecreasingTuples(n, k) == {t \in [1..k -> 0..(n - 1)] : NonDecreasing(t)}
AllSubsetTuples(n) == UNION {IncreasingTuples(n, k) : k \in 0..n}
Saturated(x) == IF x > usize_MAX THEN usize_MAX ELSE x

\* the number of tuples a product in the state its has still to yield, as an
\* unbounded integer
RECURSIVE TuplesLeftFrom(_, _)
TuplesLeftFrom(its, acc) ==
    IF its = <<>> THEN acc
    ELSE TuplesLeftFrom(Tail(its), acc * Len(Head(its).iter_orig) + Len(Head(its).iter))
TuplesLeft(its) ==
    IF its = <<>> THEN 0
    ELSE IF ~in_progress(its)
    THEN ProductOfLens([j \in 1..Len(its) |-> its[j].iter])
    ELSE TuplesLeftFrom(its, 0)

\* what the n-th next() call (n >= 1) on the generator G returns; r is what
\* the call before the n remaining ones returned (no call follows a panic)
RECURSIVE NthFrom(_, _)
NthFrom(r, n) == IF n = 0 \/ r.panic THEN r ELSE NthFrom(gen_next(r.g), n - 1)
NthCall(G, n) == NthFrom(gen_next(G), n - 1)

\* Option::map(func)
MapOption(o) == IF is_some(o) THEN Some(func(o[1])) ELSE None

Min(a, b) == IF a < b THEN a ELSE b
Max(a, b) == IF a < b THEN b ELSE a

\* the largest position in any tuple yielded so far, -1 if there is none
LargestYielded ==
    LET ps == UNION {{yielded[i][j] : j \in 1..Len(yielded[i])} : i \in 1..Len(yielded)}
    IN  IF ps = {} THEN -1 ELSE CHOOSE p \in ps : \A q \in ps : q <= p

\* the lanes whose current item the step changes
ChangedLanes == {j \in 1..Len(iters) : iters'[j].cur # iters[j].cur}

\* the step leaves lanes 1 .. j-1 alone, advances lane j by one item and
\* resets lanes j+1 .. to their own first item
CarryStopsAt(j) ==
    /\ \A i \in 1..(j - 1) : iters'[i] = iters[i]
    /\ iters[j].iter # <<>>
    /\ iters'[j] = [iters[j] EXCEPT !.cur = Some(Head(iters[j].iter)),
                                    !.iter = Tail(iters[j].iter)]
    /\ \A i \in (j + 1)..Len(iters) :
           /\ iters[i].iter_orig # <<>>
           /\ iters'[i] = [iters[i] EXCEPT !.cur = Some(Head(iters[i].iter_orig)),
                                           !.iter = Tail(iters[i].iter_orig)]

\* what a generator returns for the window w
Shown(w) == IF IsMap(gen) THEN func(w) ELSE w

\* the running fold of a_0 .. a_(n-1): out_0 = a_0, out_i = f(out_(i-1), a_i);
\* RunningFold(a, i) is out_(i-1)
RECURSIVE RunningFold(_, _)
RunningFold(a, i) ==
    IF i = 1 THEN a[1] ELSE acc_func(RunningFold(a, i - 1), a[i])

\* the running fold from b: out_0 = b, out_(i+1) = f(out_i, a_i);
\* RunningFoldFrom(b, a, i) is out_i
RECURSIVE RunningFoldFrom(_, _, _)
RunningFoldFrom(b, a, i) ==
    IF i = 0 THEN b ELSE acc_func(RunningFoldFrom(b, a, i - 1), a[i])

\* the values the adaptor is to yield, in order
Folds ==
    IF gen = "accumulate"
    THEN [i \in 1..N |-> RunningFold(input.src, i)]
    ELSE [i \in 1..(N + 1) |-> RunningFoldFrom(input.init, input.src, i - 1)]

InProduct(t, lanes) ==
    /\ Len(t) = Len(lanes)
    /\ \A j \in 1..Len(lanes) : t[j] \in 0..(Len(lanes[j]) - 1)

---------------------------------------------------------------------------
(* C1: for a source of length n and k <= n, combinations(source, k) yields,
   up to its first None, exactly C(n,k) tuples: each strictly increasing,
   in strict lexicographic order (so none repeated), and every k-subset of
   positions exactly once. *)
C1_CombinationsEnumerate ==
    (gen = "combinations" /\ K <= N) =>
        /\ ~panicked
        /\ \A i \in 1..Len(yielded) : yielded[i] \in IncreasingTuples(N, K)
        /\ LexOrdered(yielded)
        /\ finished =>
            /\ Len(yielded) = Binomial(N, K)
            /\ \A t \in IncreasingTuples(N, K) : Occurrences(yielded, t) = 1

C1_Witness ==
    /\ gen = "combinations" /\ N = 4 /\ K = 2
    /\ finished /\ Len(yielded) = 6

(* C2: for a source of length n >= 1 and any k >= 0,
   combinations_with_replacement(source, k) yields, up to its first None,
   exactly C(n+k-1, k) tuples: each non-decreasing, in strict lexicographic
   order, and every multiset of k positions exactly once. *)
C2_CwrEnumerate ==
    (gen = "combinations_with_replacement" /\ N >= 1) =>
        /\ ~panicked
        /\ \A i \in 1..Len(yielded) : yielded[i] \in NonDecreasingTuples(N, K)
        /\ LexOrdered(yielded)
        /\ finished =>
            /\ Len(yielded) = Binomial(N + K - 1, K)
            /\ \A t \in NonDecreasingTuples(N, K) : Occurrences(yielded, t) = 1

C2_Witness ==
    /\ gen = "combinations_with_replacement" /\ N = 3 /\ K = 2
    /\ finished /\ Len(yielded) = 6

(* C3: for a source of length n (0 included), powerset(source) yields, up to
   its first None, exactly 2^n subsets: the empty one first, sizes never
   decreasing, equal sizes in lexicographic order, every subset exactly
   once. *)
C3_PowersetEnumerate ==
    gen = "powerset" =>
        /\ ~panicked
        /\ \A i \in 1..Len(yielded) : yielded[i] \in AllSubsetTuples(N)
        /\ (calls >= 1 => Len(yielded) >= 1 /\ yielded[1] = <<>>)
        /\ SizeLexOrdered(yielded)
        /\ finished =>
            /\ Len(yielded) = Pow2(N)
            /\ \A t \in AllSubsetTuples(N) : Occurrences(yielded, t) = 1

C3_Witness ==
    /\ gen = "powerset" /\ N = 3
    /\ finished /\ Len(yielded) = 8

(* C4 as stated: for lanes of lengths n_1..n_m the product yields, up to its
   first None, exactly n_1 * ... * n_m tuples when every n_i >= 1 and none
   when some n_i = 0, in lexicographic order of lane positions. *)
C4_Original ==
    gen = "multi_cartesian_product" =>
        /\ ~panicked
        /\ \A i \in 1..Len(yielded) : InProduct(yielded[i], input.lanes)
        /\ LexOrdered(yielded)
        /\ finished =>
            Len(yielded) = IF SomeLaneEmpty THEN 0 ELSE ProductOfLens(input.lanes)

(* C4 amended: the same for m >= 1 lanes; a product of no lanes at all
   yields nothing (not the one empty tuple of the empty product). *)
C4_ProductEnumerate ==
    gen = "multi_cartesian_product" =>
        /\ ~panicked
        /\ \A i \in 1..Len(yielded) : InProduct(yielded[i], input.lanes)
        /\ LexOrdered(yielded)
        /\ finished =>
            Len(yielded) = IF SomeLaneEmpty \/ input.lanes = <<>> THEN 0
                           ELSE ProductOfLens(input.lanes)

C4_Witness ==
    /\ gen = "multi_cartesian_product"
    /\ Len(input.lanes) = 3 /\ \A j \in 1..3 : LaneLen(j) = 2
    /\ finished /\ Len(yielded) = 8

(* C5: Combinations, Combinations-with-Replacement and Powerset are fused:
   once a next() call has returned None, every later call returns None. *)
C5_Fused ==
    (gen \in {"combinations", "combinations_with_replacement", "powerset"} /\ finished) =>
        ret = None /\ ~panicked

C5_Witness ==
    /\ gen = "combinations" /\ N = 3 /\ K = 2
    /\ Len(yielded) = 3 /\ post >= 2 /\ ret = None

(* C6: once a next() call on a Multi-Product has returned None, every later
   call returns None. *)
C6_MultiProductTerminal ==
    (gen = "multi_cartesian_product" /\ finished) => ret = None

(* C7: combinations(source, k) with k greater than the source length, and
   combinations_with_replacement(source, k) with an empty source and k > 0,
   return None on the very first next() call and never yield. *)
C7_NoOutputParameters ==
    (/\ calls >= 1
     /\ \/ gen = "combinations" /\ K > N
        \/ gen = "combinations_with_replacement" /\ N = 0 /\ K > 0) =>
        finished /\ yielded = <<>> /\ ret = None /\ ~panicked

C7_Witness ==
    /\ gen = "combinations" /\ N = 2 /\ K = 3
    /\ calls = 1 /\ finished

(* C8 as stated: combinations_with_replacement(source, 0) never yields
   anything. *)
C8_Original ==
    (gen = "combinations_with_replacement" /\ K = 0) => yielded = <<>> /\ ret = None

(* C8 amended: combinations_with_replacement(source, 0) yields exactly one
   value, the empty tuple, on its first next() call, for every source (the
   empty one included), and None on every later call. *)
C8_CwrZeroYieldsEmptyTuple ==
    (gen = "combinations_with_replacement" /\ K = 0 /\ calls >= 1) =>
        /\ ~panicked
        /\ yielded = << <<>> >>
        /\ (calls = 1 => ret = Some(<<>>) /\ ~finished)
        /\ (calls >= 2 => ret = None /\ finished)

C8_Witness ==
    /\ gen = "combinations_with_replacement" /\ K = 0 /\ N = 0
    /\ calls = 2 /\ finished /\ yielded = << <<>> >>

(* C9: if any lane of a Multi-Product is empty, the first next() call
   returns None and so does every later one. *)
C9_EmptyLaneEmptyProduct ==
    (gen = "multi_cartesian_product" /\ SomeLaneEmpty /\ calls >= 1) =>
        finished /\ yielded = <<>> /\ ret = None /\ ~panicked

C9_Witness ==
    /\ gen = "multi_cartesian_product"
    /\ Len(input.lanes) = 3 /\ LaneLen(1) = 2 /\ LaneLen(2) = 0 /\ LaneLen(3) = 2
    /\ calls >= 2 /\ ret = None

(* C10: after s calls to next(), count() on the Multi-Product returns
   max(0, N - s), N being the number of tuples a fresh product yields before
   its first None. *)
C10_CountAgrees ==
    (gen = "multi_cartesian_product" /\ ~panicked) =>
        count(iters) = Max0(unspec_count(multi_cartesian_product(input.lanes)) - calls)

(* C10 up to and including the call that first returns None: there count()
   does agree with plain iteration; the disagreement begins with the call
   after it, which starts the product over. *)
C10_CountAgreesUntilFinished ==
    (gen = "multi_cartesian_product" /\ ~panicked /\ post = 0) =>
        count(iters) = Max0(unspec_count(multi_cartesian_product(input.lanes)) - calls)

(* C11: after s calls to next(), last() on the Multi-Product returns L when
   s < N and None when s >= N, where a fresh product yields N tuples before
   its first None, the last of them L (zero lanes included). *)
C11_LastAgrees ==
    (gen = "multi_cartesian_product" /\ ~panicked) =>
        last(iters) =
            IF calls < unspec_count(multi_cartesian_product(input.lanes))
            THEN unspec_last(multi_cartesian_product(input.lanes))
            ELSE None

(* C11 where it does hold: a product of at least one lane on which next()
   was never called. *)
C11_LastOfFreshProduct ==
    (gen = "multi_cartesian_product" /\ calls = 0 /\ input.lanes # <<>>) =>
        last(iters) = unspec_last(multi_cartesian_product(input.lanes))

(* C12: with every lane's size exactly known, after s calls to next()
   (every s >= 0, also after finished, with zero lanes or an empty lane)
   size_hint() on the Multi-Product returns lower = upper = max(0, N - s),
   where a fresh product yields N tuples before its first None. *)
C12_SizeHintExact ==
    (gen = "multi_cartesian_product" /\ ~panicked /\ input.unknown = {}) =>
        mp_size_hint(iters, input.unknown) =
            Exactly(Max0(unspec_count(multi_cartesian_product(input.lanes)) - calls))

(* C12 up to and including the call that first returns None: there the
   size hint is exact. *)
C12_SizeHintExactUntilFinished ==
    (gen = "multi_cartesian_product" /\ ~panicked /\ input.unknown = {} /\ post = 0) =>
        mp_size_hint(iters, input.unknown) =
            Exactly(Max0(unspec_count(multi_cartesian_product(input.lanes)) - calls))

(* C13: after any number of next() calls on a Powerset, whatever valid
   bounds the source reports for its unpulled items, size_hint()'s lower
   bound is <= the number of subsets still to be yielded <= its upper bound
   when there is one; and when the source reports its exact length both
   bounds equal 2^n minus the number of subsets already yielded, which is
   what pos holds (0 once finished). *)
C13_PowersetSizeHint ==
    IsPowerset(gen) =>
        LET remaining == Pow2(N) - Len(yielded)
            left == Len(pool.it)
            P == [combs |-> Combs, pos |-> pos]
        IN  /\ pos = Len(yielded)
            /\ finished => remaining = 0
            /\ pow_size_hint(P, Exactly(left)) = Exactly(remaining)
            /\ \A lo \in 0..left :
                   \A hi \in {None} \cup {Some(h) : h \in left..(MaxN + 1)} :
                       /\ pow_size_hint(P, SizeHint(lo, hi)).lo <= remaining
                       /\ is_some(pow_size_hint(P, SizeHint(lo, hi)).hi) =>
                              remaining <= pow_size_hint(P, SizeHint(lo, hi)).hi[1]

C13_Witness ==
    /\ gen = "powerset" /\ N = 4
    /\ Len(yielded) = 3 /\ ~finished /\ Len(pool.it) = 2
    /\ pow_size_hint([combs |-> Combs, pos |-> pos], SizeHint(1, None)) = SizeHint(5, None)

(* C14: the exact count and the size bounds of a Multi-Product never
   overflow: count() neither panics nor wraps but saturates at usize::MAX
   when the number of tuples left exceeds it, size_hint() does the same when
   every lane's size is known, and a lane that reports no upper bound makes
   the upper bound of the product absent. *)
C14_NeverOverflows ==
    (IsMultiProduct(gen) /\ ~panicked) =>
        /\ ~count_overflows(iters)
        /\ count(iters) = Saturated(TuplesLeft(iters))
        /\ input.unknown = {} =>
               mp_size_hint(iters, input.unknown) = Exactly(Saturated(TuplesLeft(iters)))
        /\ input.unknown # {} =>
               /\ mp_size_hint(iters, input.unknown).hi = None
               /\ mp_size_hint(iters, input.unknown).lo <= TuplesLeft(iters)

(* The size_hint half of C14 alone: it holds. *)
C14_SizeHintSaturates ==
    (IsMultiProduct(gen) /\ ~panicked) =>
        /\ input.unknown = {} =>
               mp_size_hint(iters, input.unknown) = Exactly(Saturated(TuplesLeft(iters)))
        /\ input.unknown # {} =>
               /\ mp_size_hint(iters, input.unknown).hi = None
               /\ mp_size_hint(iters, input.unknown).lo <= TuplesLeft(iters)

(* count() where the number of tuples left fits a usize: there it is right. *)
C14_CountExactWhenSmall ==
    (IsMultiProduct(gen) /\ ~panicked /\ ~count_overflows(iters)) =>
        count(iters) = TuplesLeft(iters)

(* C15: a _map constructor yields, call by call, f(w) where w is the window
   its collecting constructor yields on that call for the same source(s)
   and parameters, and returns None on exactly the same calls. *)
C15_MapEquivalent ==
    (IsMap(gen) /\ calls >= 1) =>
        /\ ~panicked
        /\ ~NthCall(construct(Collecting(gen), input), calls).panic
        /\ ret = MapOption(NthCall(construct(Collecting(gen), input), calls).ret)

C15_Witness ==
    /\ gen = "powerset_map" /\ N = 3
    /\ ret = Some(<<2, 1, 0>>)
    /\ NthCall(construct("powerset", input), calls).ret = Some(<<0, 1, 2>>)

(* C16: Combinations never buffers more of the source than demanded, also
   when driven by Powerset through reset.  In every state the buffer
   followed by what is left of the source is the source (nothing is pulled
   twice or lost), construction has pulled min(k, source length) items, and
   the buffer is no longer than max(k, 1 + the largest position in any
   tuple yielded so far).  Every next() call pulls at most one item, and
   only when the generator is past its first call with the rightmost index
   on the last cached position (for Powerset: or with no index at all, the
   probe for k = 1). *)
C16_BufferState ==
    (IsCombinations(gen) \/ IsPowerset(gen)) =>
        /\ pool.buffer \o pool.it = input.src
        /\ calls = 0 => pool_len(pool) = Min(K, N)
        /\ pool_len(pool) <= Max(Len(indices), 1 + LargestYielded)

C16_BufferStep ==
    (IsCombinations(gen) \/ IsPowerset(gen)) =>
        /\ pool_len(pool') <= pool_len(pool) + 1
        /\ pool_len(pool') >= pool_len(pool)
        /\ pool_len(pool') > pool_len(pool) =>
               /\ ~first
               /\ \/ indices # <<>> /\ indices[Len(indices)] = pool_len(pool) - 1
                  \/ IsPowerset(gen) /\ indices = <<>>

C16_NeverBuffersMore == []C16_BufferState /\ [][C16_BufferStep]_vars

C16_Witness ==
    /\ gen = "combinations" /\ N = 4 /\ K = 2
    /\ calls = 2 /\ ret = Some(<<0, 2>>)
    /\ pool_len(pool) = 3 /\ pool.it = <<3>>

(* C17: on a next() call on a Multi-Product that returns a tuple, if j is
   the leftmost lane whose current item changed, every lane left of j keeps
   its current item and its advancing position, lane j has advanced by
   exactly one item, and every lane right of j has been reset to its own
   first item. *)
C17_CarryStep ==
    (IsMultiProduct(gen) /\ calls' = calls + 1 /\ is_some(ret') /\ ~panicked') =>
        /\ ChangedLanes # {}
        /\ CarryStopsAt(CHOOSE j \in ChangedLanes : \A i \in ChangedLanes : j <= i)

C17_CarryTouchesOnlyReachedLanes == [][C17_CarryStep]_vars

(* C17 for the calls up to the first None: there it holds. *)
C17_CarryUntilFinished == [][~finished => C17_CarryStep]_vars

(* C18: in every state a Multi-Product reaches by next() calls, if the last
   lane holds a current item then every lane holds one; so the unwrap of
   each lane's current item in next() never fails, and in_progress(), which
   looks at the last lane only, tells whether a tuple is current. *)
C18_LastLaneTellsAll ==
    IsMultiProduct(gen) =>
        /\ ~panicked
        /\ (iters # <<>> /\ is_some(iters[Len(iters)].cur)) =>
               \A j \in 1..Len(iters) : is_some(iters[j].cur)
        /\ in_progress(iters) <=>
               (iters # <<>> /\ \A j \in 1..Len(iters) : is_some(iters[j].cur))
        /\ in_progress(iters) <=> is_some(ret)

C18_Witness ==
    /\ gen = "multi_cartesian_product"
    /\ Len(input.lanes) = 3 /\ \A j \in 1..3 : LaneLen(j) = 2
    /\ calls = 3 /\ ret = Some(<<0, 1, 0>>)
    /\ in_progress(iters) /\ iters[1].iter = <<1>> /\ iters[2].iter = <<>>

(* C19 as stated: in every reachable state, from construction onward and
   across next() and reset() calls, the Combinations index tuple is
   strictly increasing, the Combinations-with-Replacement index tuple is
   non-decreasing, and in both every position is less than the current
   buffer length. *)
C19_Original ==
    /\ (IsCombinations(gen) \/ IsPowerset(gen)) =>
           StrictlyIncreasing(indices) /\ in_bounds(indices, pool)
    /\ IsCombinationsWithReplacement(gen) =>
           NonDecreasing(indices) /\ in_bounds(indices, pool)

(* C19 amended: the order holds in every reachable state; the bound holds
   in every state in which the index tuple has been yielded (the first-call
   flag is clear), and for Combinations also before that whenever k is at
   most the buffer length.  It does not hold at construction of
   combinations with k above the source length, at construction of
   combinations_with_replacement with k >= 1 (nothing is buffered before the
   first call), nor after reset(1) over an empty source. *)
C19_IndexTuple ==
    /\ (IsCombinations(gen) \/ IsPowerset(gen)) =>
           /\ StrictlyIncreasing(indices)
           /\ (~first \/ Len(indices) <= pool_len(pool)) => in_bounds(indices, pool)
    /\ IsCombinationsWithReplacement(gen) =>
           /\ NonDecreasing(indices)
           /\ ~first => in_bounds(indices, pool)

C19_Witness ==
    /\ gen = "powerset" /\ N = 4
    /\ ~first /\ indices = <<1, 3>> /\ pool_len(pool) = 4
    /\ ret = Some(<<1, 3>>)

(* C20: no next() call on Combinations, Combinations-with-Replacement or
   Powerset reads a buffer position that is not cached, and none computes
   buffer length - 1 on an empty buffer or lets a subtraction of the scan
   underflow: for every source length (0 included), every k and every
   sequence of calls, those after finished and after a Powerset-driven
   reset included.  No call has panicked, the call that could come next
   does not either, and past the first call a non-empty index tuple never
   has more positions than the buffer has items. *)
C20_ReadsInRange ==
    (IsCombinations(gen) \/ IsCombinationsWithReplacement(gen) \/ IsPowerset(gen)) =>
        /\ ~panicked
        /\ ~gen_next(Self).panic
        /\ (~first /\ indices # <<>>) =>
               /\ pool_len(pool) >= 1
               /\ ~IsCombinationsWithReplacement(gen) => pool_len(pool) >= Len(indices)

C20_Witness ==
    /\ gen = "powerset" /\ N = 0
    /\ finished /\ post >= 1 /\ ret = None
    /\ indices = <<0>> /\ pool_len(pool) = 0 /\ first

(* C21: a next() call on Combinations or Combinations-with-Replacement
   (every source, every k, 0 included) that returns None leaves the index
   tuple, the first flag and the buffer as they were and pulls nothing from
   the source. *)
C21_FinishedStep ==
    (/\ IsCombinations(gen) \/ IsCombinationsWithReplacement(gen)
     /\ calls' = calls + 1 /\ ret' = None /\ ~panicked') =>
        /\ indices' = indices
        /\ first' = first
        /\ pool' = pool

C21_FinishedCallChangesNothing == [][C21_FinishedStep]_vars

(* C21 where it holds: Combinations with every k, and
   Combinations-with-Replacement with k >= 1. *)
C21_ExceptCwrZero ==
    [][(IsCombinations(gen) \/ K >= 1) => C21_FinishedStep]_vars

(* C22: reset(k) of a Combinations generator, from any reachable state and
   for k below, equal to or above the old size.  Afterwards the index tuple
   is exactly 0..k, the first flag is set, the buffer holds at least
   min(k, source length) items, nothing cached was dropped (the old buffer
   is a prefix of the new one, and buffer and unpulled source still make up
   the source), and the next next() call returns the first k cached items,
   or None if fewer than k exist. *)
C22_AfterReset ==
    op.name = "reset" =>
        /\ indices = range_vec(0, op.k)
        /\ first
        /\ pool_len(pool) >= Min(op.k, N)
        /\ pool.buffer \o pool.it = input.src
        /\ ~gen_next(Self).panic
        /\ gen_next(Self).ret =
               IF op.k <= pool_len(pool)
               THEN Some(Shown(SubSeq(pool.buffer, 1, op.k)))
               ELSE None

C22_ResetStep ==
    op'.name = "reset" =>
        /\ pool_len(pool') >= pool_len(pool)
        /\ SubSeq(pool'.buffer, 1, pool_len(pool)) = pool.buffer

C22_ResetRestarts == []C22_AfterReset /\ [][C22_ResetStep]_vars

C22_Witness ==
    /\ gen = "combinations" /\ N = 4 /\ K = 1
    /\ op = Operation("reset", 3)
    /\ indices = <<0, 1, 2>> /\ first
    /\ pool.buffer = <<0, 1, 2>> /\ pool.it = <<3>>

(* C23: the scratch Vec of a _map generator never has to grow after
   construction: on every next() call the window copied into it has at most
   as many items as the capacity fixed at construction (so the capacity
   never changes), and the Vec is empty before and after every call. *)
C23_ScratchNeverGrows ==
    IsMap(gen) =>
        /\ manager.vec = <<>>
        /\ manager.capacity = construct(gen, input).manager.capacity
        /\ is_some(ret) => Len(ret[1]) <= construct(gen, input).manager.capacity

(* C23 for the three constructors that size the Vec for their windows, and
   what holds for powerset_map, which asks for capacity 0: its Vec is empty
   between calls and grows to the size of the largest subset yielded. *)
C23_ExceptPowersetMap ==
    IsMap(gen) =>
        /\ manager.vec = <<>>
        /\ gen # "powerset_map" =>
               /\ manager.capacity = construct(gen, input).manager.capacity
               /\ is_some(ret) => Len(ret[1]) <= manager.capacity
        /\ gen = "powerset_map" =>
               /\ construct(gen, input).manager.capacity = 0
               /\ manager.capacity = Len(indices) \/ (first /\ manager.capacity <= Len(indices))

(* C24: accumulate over a_0..a_(n-1) yields exactly n values, out_0 = a_0 and
   out_i = f(out_(i-1), a_i), and nothing for an empty input;
   accumulate_from with initial value b yields exactly n + 1 values,
   out_0 = b and out_(i+1) = f(out_i, a_i); every call after the last value
   returns None. *)
C24_RunningFold ==
    IsAccumulate(gen) =>
        /\ ~panicked
        /\ Len(Folds) = IF gen = "accumulate" THEN N ELSE N + 1
        /\ yielded = SubSeq(Folds, 1, Min(calls, Len(Folds)))
        /\ calls >= 1 =>
               ret = IF calls <= Len(Folds) THEN Some(Folds[calls]) ELSE None
        /\ finished <=> calls > Len(Folds)

C24_Witness ==
    /\ gen = "accumulate_from" /\ N = 3 /\ input.init = 1
    /\ yielded = <<1, 3, 8, 19>>
    /\ finished /\ post = 2 /\ ret = None

(* C25: with the input's size exactly known, after s calls to next() (every
   s >= 0, before the first call and after finished included) size_hint()
   of Accumulate and of AccumulateFrom returns lower = upper =
   max(0, N - s), N being the number of values the adaptor yields in all
   (n for accumulate, n + 1 for accumulate_from). *)
C25_AccumulateSizeHint ==
    /\ gen = "accumulate" =>
           accumulate_size_hint(adaptor, Exactly(Len(adaptor.iter))) =
               Exactly(Max0(N - calls))
    /\ gen = "accumulate_from" =>
           accumulate_from_size_hint(adaptor, Exactly(Len(adaptor.iter))) =
               Exactly(Max0(N + 1 - calls))

C25_Witness ==
    /\ gen = "accumulate" /\ N = 4 /\ calls = 2
    /\ adaptor.peeked = Some(Some(7)) /\ adaptor.iter = <<3>>
    /\ accumulate_size_hint(adaptor, Exactly(1)) = Exactly(2)

====
